---- MODULE Spec2Model ----
(***************************************************************************)
(* Model of eslint-bot's server.js: the patch line mapper                  *)
(* (getLineMapFromPatchString) and the webhook pipeline (treatPayload and  *)
(* the callbacks it chains).                                               *)
(*                                                                         *)
(* Strings are sequences of one-character strings, so that split, the two  *)
(* regular expressions and line[0] are computed as the code computes them. *)
(***************************************************************************)
EXTENDS Integers, Sequences, FiniteSets, Bags, TLC

(***************************************************************************)
(* Bounds                                                                  *)
(***************************************************************************)
\* longest patch, in lines, the line mapper is run on in SpecMap
MaxPatchLines == 4

\* longest patch, in lines, of the first of several calls in SpecCalls
MaxCallLines == 3

\* longest list of files filterJavascriptFiles is run on in SpecFilter
MaxFiles == 3

(***************************************************************************)
(* Patch text                                                              *)
(***************************************************************************)
NL == "\n"

Digits == {"0", "1", "2", "3", "4", "5", "6", "7", "8", "9"}

DigitVal(c) ==
    CASE c = "0" -> 0 [] c = "1" -> 1 [] c = "2" -> 2 [] c = "3" -> 3
      [] c = "4" -> 4 [] c = "5" -> 5 [] c = "6" -> 6 [] c = "7" -> 7
      [] c = "8" -> 8 [] c = "9" -> 9

HunkA == <<"@", "@", " ", "-", "1", ",", "2", " ", "+", "1", ",", "3", " ", "@", "@">>
HunkC == <<"@", "@", " ", "-", "8", ",", "2", " ", "+", "1", "2", ",", "3", " ", "@", "@", " ", "x", "+", "5">>
HunkBad == <<"@", "@", " ", "+", "x">>
AddB == <<"+", "b">>
AddAt == <<"+", "@", "@", " ", "z">>
DelOld == <<"-", "o", "l", "d">>
CtxA == <<" ", "a">>
EmptyLine == <<>>

\* the lines patches are built from in SpecMap
PatchLines == {HunkA, HunkC, HunkBad, AddB, AddAt, DelOld, CtxA, EmptyLine}

ScenarioA == <<"@", "@", " ", "-", "1", ",", "2", " ", "+", "1", ",", "3", " ", "@", "@", "\n", " ", "a", "\n", "+", "b", "\n", " ", "c", "\n">>
ScenarioB == <<"@", "@", " ", "-", "1", ",", "1", " ", "+", "1", ",", "1", " ", "@", "@", "\n", "-", "o", "l", "d", "\n", "+", "n", "e", "w", "\n">>

RECURSIVE JoinLines(_)
\* the patch string whose lines are ls: the lines separated by "\n"
JoinLines(ls) ==
    IF Len(ls) = 1 THEN ls[1]
    ELSE ls[1] \o <<NL>> \o JoinLines(Tail(ls))

RECURSIVE SplitFrom(_, _, _)
SplitFrom(s, i, cur) ==
    IF i > Len(s) THEN <<cur>>
    ELSE IF s[i] = NL THEN <<cur>> \o SplitFrom(s, i + 1, <<>>)
    ELSE SplitFrom(s, i + 1, Append(cur, s[i]))

\* String.prototype.split('\n'): "" gives one empty line, a trailing "\n" a last empty line
split(s) == SplitFrom(s, 1, <<>>)

(***************************************************************************)
(* getLineMapFromPatchString                                               *)
(***************************************************************************)
\* line.match(/^@@.*/)
IsHunkHeader(line) == Len(line) >= 2 /\ line[1] = "@" /\ line[2] = "@"

\* positions where /\+[0-9]+/ matches: a "+" followed by at least one digit
PlusDigitAt(line) ==
    {i \in 1..Len(line) : line[i] = "+" /\ i < Len(line) /\ line[i + 1] \in Digits}

Min(S) == CHOOSE x \in S : \A y \in S : x <= y

RECURSIVE DigitRun(_, _, _)
\* the number written by the longest run of digits of line from position i on
DigitRun(line, i, n) ==
    IF i <= Len(line) /\ line[i] \in Digits
    THEN DigitRun(line, i + 1, 10 * n + DigitVal(line[i]))
    ELSE n

\* line.match(/\+[0-9]+/)[0].slice(1) - 1, for a line the regular expression matches
HeaderFileLine(line) == DigitRun(line, Min(PlusDigitAt(line)) + 1, 0) - 1

EmptyMap == [k \in {} |-> 0]

\* lineMap[key] = value on a JavaScript object
MapSet(m, key, value) ==
    [k \in DOMAIN m \cup {key} |-> IF k = key THEN value ELSE m[k]]

\* the state of the reduce: the two closure counters and the accumulator
InitAcc == [diffLineIndex |-> 0, fileLineIndex |-> 0, lineMap |-> EmptyMap, threw |-> FALSE]

\* HeaderStep with the header counted as a line of the diff
HeaderStepBadCountsHeader(acc, line) ==
    IF PlusDigitAt(line) = {}
    THEN [acc EXCEPT !.threw = TRUE]
    ELSE [acc EXCEPT !.fileLineIndex = HeaderFileLine(line),
                     !.diffLineIndex = @ + 1]

\* the branch of the reducer taken for a hunk header (server.js:112): null[0]
\* is a TypeError when the header holds no "+<digits>"
HeaderStep(acc, line) ==
    IF PlusDigitAt(line) = {}
    THEN [acc EXCEPT !.threw = TRUE]
    ELSE [acc EXCEPT !.fileLineIndex = HeaderFileLine(line)]

\* line[0] of a JavaScript string: undefined for the empty string
FirstChar(line) == IF Len(line) = 0 THEN "undefined" ELSE line[1]

\* OtherStep with every line that is not a deletion recorded
OtherStepBadMapsContext(acc, line) ==
    LET d == acc.diffLineIndex + 1
        f == IF FirstChar(line) # "-" THEN acc.fileLineIndex + 1 ELSE acc.fileLineIndex
    IN  [acc EXCEPT !.diffLineIndex = d,
                    !.fileLineIndex = f,
                    !.lineMap = IF FirstChar(line) # "-" THEN MapSet(@, f, d) ELSE @]

\* the branch of the reducer taken for every other line (server.js:114-120)
OtherStep(acc, line) ==
    LET d == acc.diffLineIndex + 1
        f == IF FirstChar(line) # "-" THEN acc.fileLineIndex + 1 ELSE acc.fileLineIndex
    IN  [acc EXCEPT !.diffLineIndex = d,
                    !.fileLineIndex = f,
                    !.lineMap = IF FirstChar(line) # "-" /\ FirstChar(line) = "+"
                                THEN MapSet(@, f, d) ELSE @]

\* the reducer callback of server.js:110-123; a TypeError ends the reduce
reducer(acc, line) ==
    IF acc.threw THEN acc
    ELSE IF IsHunkHeader(line) THEN HeaderStep(acc, line)
    ELSE OtherStep(acc, line)

RECURSIVE reduce(_, _)
reduce(acc, ls) ==
    IF Len(ls) = 0 THEN acc ELSE reduce(reducer(acc, ls[1]), Tail(ls))

\* a patch value: the string, or undefined when the file entry has no patch
PatchOf(s) == [present |-> TRUE, str |-> s]
NoPatch == [present |-> FALSE, str |-> <<>>]

\* getLineMapFromPatchString: [threw, lineMap]; undefined.split is a TypeError
getLineMapFromPatchString(patch) ==
    IF ~patch.present THEN [threw |-> TRUE, lineMap |-> EmptyMap]
    ELSE LET r == reduce(InitAcc, split(patch.str))
         IN  [threw |-> r.threw, lineMap |-> IF r.threw THEN EmptyMap ELSE r.lineMap]

(***************************************************************************)
(* The world the pipeline runs against                                     *)
(***************************************************************************)
\* webhook deliveries accepted in one run
MaxEvents == 1

AJs == <<"a", ".", "j", "s">>
BJs == <<"b", ".", "j", "s">>
CJs == <<"c", ".", "j", "s">>
DJs == <<"d", ".", "j", "s">>
ReadmeMd == <<"r", ".", "m", "d">>
NoPath == <<>>

\* request bodies app.post('/') is called with: no body, a body without
\* pull_request (another kind of event), and pull request events
NoBody == [body |-> FALSE, pull_request |-> FALSE, number |-> 0]
OtherEvent == [body |-> TRUE, pull_request |-> FALSE, number |-> 0]
PullRequestEvent(n) == [body |-> TRUE, pull_request |-> TRUE, number |-> n]
PullRequestNumbers == {1, 2}
Payloads == {NoBody, OtherEvent} \cup {PullRequestEvent(n) : n \in PullRequestNumbers}

\* what github.pullRequests.getCommits answers for a pull request
CommitsOf(number) ==
    IF number = 1 THEN <<[sha |-> "c1"], [sha |-> "c2"]>> ELSE <<[sha |-> "c3"]>>

File(filename, patch) == [filename |-> filename, patch |-> patch]

\* the files entry github.repos.getCommit answers for a commit; c.js is a
\* file GitHub sends without a patch (binary, or renamed without a change),
\* d.js one whose patch is the empty string
FilesOf(sha) ==
    CASE sha = "c1" -> <<File(AJs, PatchOf(ScenarioA)), File(ReadmeMd, PatchOf(ScenarioB)),
                         File(BJs, PatchOf(ScenarioB))>>
      [] sha = "c2" -> <<File(CJs, NoPatch)>>
      [] OTHER -> <<File(DJs, PatchOf(<<>>))>>

\* a linting message; ruleId is a rule name, "undefined" (no such key) or "null"
Finding(ruleId, message, line) == [ruleId |-> ruleId, message |-> message, line |-> line]

Messages(ms) == [kind |-> "messages", messages |-> ms]
Raises == [kind |-> "raise", messages |-> <<>>]
NoResults == [kind |-> "undefined", messages |-> <<>>]

\* what eslint.executeOnText followed by _.get(..., 'results[0].messages') can
\* give for a file: a list of messages, undefined (no results[0]), or a throw
AnalyzerResults(sha, filename) ==
    CASE filename = AJs ->
            {Messages(<<Finding("semi", "m1", 2), Finding("undefined", "m2", 2),
                        Finding("semi", "m3", 3)>>)}
      [] filename = BJs -> {Messages(<<Finding("null", "m4", 1)>>), Raises, NoResults}
      [] OTHER -> {Messages(<<>>), Messages(<<Finding("semi", "m5", 1)>>)}

\* FILE_FILTER of ./config: names ending in ".js"
FILE_FILTER(filename) ==
    /\ Len(filename) >= 3
    /\ SubSeq(filename, Len(filename) - 2, Len(filename)) = <<".", "j", "s">>

(***************************************************************************)
(* Pipeline state                                                          *)
(***************************************************************************)
VARIABLES
    events,       \* the payloads app.post('/') was called with, in order
    ended,        \* ended[e]: how often response.end() ran for delivery e
    pending,      \* bag of github requests in flight
    calls,        \* bag of every github request issued so far
    failed,       \* bag of the requests github answered with an error
    logged,       \* the failed requests whose error went to console.log
    analysed,     \* the getContent requests eslint.executeOnText ran for, with its result
    uncaught,     \* "none", or where the exception that ended the process was thrown
    patchString,  \* SpecMap: the argument of getLineMapFromPatchString
    mapLines,     \* SpecMap: patchString.split('\n')
    mapIdx,       \* SpecMap: the line the reduce is at
    mapAcc,       \* SpecMap: the counters and the accumulator of the reduce
    mapPc,        \* SpecMap: "call", "reduce", "returned" or "threw"
    callNo,       \* SpecCalls: which call of getLineMapFromPatchString this is
    firstPatch,   \* SpecCalls: the argument of the first call
    firstResult,  \* SpecCalls: what the first call returned
    filesIn,      \* SpecFilter: the argument of filterJavascriptFiles
    filesOut,     \* SpecFilter: what filterJavascriptFiles returned
    filterPc      \* SpecFilter: "call" or "returned"

pipeVars == <<events, ended, pending, calls, failed, logged, analysed, uncaught>>
mapVars == <<patchString, mapLines, mapIdx, mapAcc, mapPc, callNo, firstPatch, firstResult>>
filterVars == <<filesIn, filesOut, filterPc>>
vars == <<events, ended, pending, calls, failed, logged, analysed, uncaught,
          patchString, mapLines, mapIdx, mapAcc, mapPc, callNo, firstPatch, firstResult,
          filesIn, filesOut, filterPc>>

\* a request to the github client, with what its callback closes over
Request(api, ev, number, sha, path, patch, position, body) ==
    [api |-> api, ev |-> ev, number |-> number, sha |-> sha, path |-> path,
     patch |-> patch, position |-> position, body |-> body]

RECURSIVE BagOfSeq(_)
BagOfSeq(rs) ==
    IF Len(rs) = 0 THEN EmptyBag ELSE SetToBag({rs[1]}) (+) BagOfSeq(Tail(rs))

(***************************************************************************)
(* The functions of server.js                                              *)
(***************************************************************************)
NoBodyText == <<>>

\* github.pullRequests.getCommits(..., callback) of getCommitsForPullRequest
GetCommitsRequest(ev, number) ==
    Request("getCommits", ev, number, "", NoPath, NoPatch, 0, NoBodyText)

\* github.repos.getCommit(..., callback) of getFilesFromCommit
GetCommitRequest(ev, number, sha) ==
    Request("getCommit", ev, number, sha, NoPath, NoPatch, 0, NoBodyText)

\* GetContentRequest with the sha of one commit for every file, as callbacks
\* sharing one variable for the commit would see it
GetContentRequestBadSha(ev, number, file, sha) ==
    Request("getContent", ev, number, "c2", file.filename, file.patch, 0, NoBodyText)

\* github.repos.getContent(..., callback) of downloadFile; the callback
\* closes over number, the file entry (filename, patch) and sha
GetContentRequest(ev, number, file, sha) ==
    Request("getContent", ev, number, sha, file.filename, file.patch, 0, NoBodyText)

\* filterJavascriptFiles with the kept files in the opposite order
filterJavascriptFilesBadOrder(files) ==
    LET kept == SelectSeq(files, LAMBDA f : FILE_FILTER(f.filename))
    IN  [i \in 1..Len(kept) |-> kept[Len(kept) + 1 - i]]

\* files.filter(({filename}) => filename.match(FILE_FILTER))
filterJavascriptFiles(files) == SelectSeq(files, LAMBDA f : FILE_FILTER(f.filename))

\* lineMap[line]: the value, or undefined when the object has no such key
Lookup(lineMap, line) ==
    IF line \in DOMAIN lineMap
    THEN [defined |-> TRUE, value |-> lineMap[line]]
    ELSE [defined |-> FALSE, value |-> 0]

\* if (diffLinePosition): undefined and 0 are falsy
Truthy(v) == v.defined /\ v.value # 0

\* the template string `**${ruleId}**: ${message}`, ruleId defaulting to
\* 'Eslint' when the message has no ruleId (a default applies to undefined only)
CommentBody(finding) ==
    <<"**", IF finding.ruleId = "undefined" THEN "Eslint" ELSE finding.ruleId,
      "**: ", finding.message>>

\* sendSingleComment: the createComment requests it issues (none or one)
sendSingleCommentBadNoTest(ev, number, filename, lineMap, finding, sha) ==
    <<Request("createComment", ev, number, sha, filename, NoPatch,
              Lookup(lineMap, finding.line).value, CommentBody(finding))>>

sendSingleComment(ev, number, filename, lineMap, finding, sha) ==
    LET diffLinePosition == Lookup(lineMap, finding.line)
    IN  IF Truthy(diffLinePosition)
        THEN <<Request("createComment", ev, number, sha, filename, NoPatch,
                       diffLinePosition.value, CommentBody(finding))>>
        ELSE <<>>

RECURSIVE sendComments(_, _, _, _, _, _)
\* sendComments: messages.map(message => sendSingleComment(...)), the
\* requests issued in the order of the messages
sendComments(ev, number, filename, lineMap, messages, sha) ==
    IF Len(messages) = 0 THEN <<>>
    ELSE sendSingleComment(ev, number, filename, lineMap, messages[1], sha)
            \o sendComments(ev, number, filename, lineMap, Tail(messages), sha)

(***************************************************************************)
(* Actions of the pipeline: the request handler and the github callbacks   *)
(***************************************************************************)
\* the process is up: no exception went uncaught
Running == uncaught = "none"

Issue(reqs) ==
    /\ pending' = pending (+) BagOfSeq(reqs)
    /\ calls' = calls (+) BagOfSeq(reqs)

\* r answered: it leaves the requests in flight, reqs are issued
Answer(r, reqs) ==
    /\ pending' = (pending (-) SetToBag({r})) (+) BagOfSeq(reqs)
    /\ calls' = calls (+) BagOfSeq(reqs)

\* Post without the test of payload and payload.pull_request
PostBadNoTest(payload) ==
    /\ Running
    /\ Len(events) < MaxEvents
    /\ events' = Append(events, payload)
    /\ Issue(<<GetCommitsRequest(Len(events) + 1, payload.number)>>)
    /\ ended' = Append(ended, 1)
    /\ UNCHANGED <<failed, logged, analysed, uncaught>>
    /\ UNCHANGED <<mapVars, filterVars>>

\* Post with the response left open
PostBadNoEnd(payload) ==
    /\ Running
    /\ Len(events) < MaxEvents
    /\ events' = Append(events, payload)
    /\ IF payload.body /\ payload.pull_request
       THEN Issue(<<GetCommitsRequest(Len(events) + 1, payload.number)>>)
       ELSE UNCHANGED <<pending, calls>>
    /\ ended' = Append(ended, 0)
    /\ UNCHANGED <<failed, logged, analysed, uncaught>>
    /\ UNCHANGED <<mapVars, filterVars>>

\* app.post('/'): treatPayload for a pull request event, then response.end()
Post(payload) ==
    /\ Running
    /\ Len(events) < MaxEvents
    /\ events' = Append(events, payload)
    /\ IF payload.body /\ payload.pull_request
       THEN Issue(<<GetCommitsRequest(Len(events) + 1, payload.number)>>)
       ELSE UNCHANGED <<pending, calls>>
    /\ ended' = Append(ended, 1)
    /\ UNCHANGED <<failed, logged, analysed, uncaught>>
    /\ UNCHANGED <<mapVars, filterVars>>

\* the commits arrive: commits.map(commit => getFilesFromCommit(..., commit))
GetCommitsOk(r) ==
    /\ Running
    /\ BagIn(r, pending) /\ r.api = "getCommits"
    /\ LET commits == CommitsOf(r.number)
           req(i) == GetCommitRequest(r.ev, r.number, commits[i].sha)
       IN  Answer(r, [i \in 1..Len(commits) |-> req(i)])
    /\ UNCHANGED <<events, ended, failed, logged, analysed, uncaught>>
    /\ UNCHANGED <<mapVars, filterVars>>

\* getCommits fails: the error is logged, then callback(undefined) runs
\* commits.map on undefined, a TypeError nothing catches
GetCommitsErr(r) ==
    /\ Running
    /\ BagIn(r, pending) /\ r.api = "getCommits"
    /\ Answer(r, <<>>)
    /\ failed' = failed (+) SetToBag({r})
    /\ logged' = logged \cup {r}
    /\ uncaught' = "commits.map"
    /\ UNCHANGED <<events, ended, analysed>>
    /\ UNCHANGED <<mapVars, filterVars>>

\* the files of a commit arrive: filter, then one getContent per kept file
GetCommitOk(r) ==
    /\ Running
    /\ BagIn(r, pending) /\ r.api = "getCommit"
    /\ LET files == filterJavascriptFiles(FilesOf(r.sha))
           req(i) == GetContentRequest(r.ev, r.number, files[i], r.sha)
       IN  Answer(r, [i \in 1..Len(files) |-> req(i)])
    /\ UNCHANGED <<events, ended, failed, logged, analysed, uncaught>>
    /\ UNCHANGED <<mapVars, filterVars>>

\* getCommit fails.  The callback is (error, {files}) => ...: with no second
\* argument the destructuring throws before the error is logged; with a
\* second argument that has no files, the error is logged and files.filter
\* throws on undefined.  Either way a TypeError nothing catches.
GetCommitErr(r, data) ==
    /\ Running
    /\ BagIn(r, pending) /\ r.api = "getCommit"
    /\ Answer(r, <<>>)
    /\ failed' = failed (+) SetToBag({r})
    /\ IF data = "undefined"
       THEN /\ logged' = logged
            /\ uncaught' = "getCommit.destructure"
       ELSE /\ logged' = logged \cup {r}
            /\ uncaught' = "files.filter"
    /\ UNCHANGED <<events, ended, analysed>>
    /\ UNCHANGED <<mapVars, filterVars>>

\* eslint.executeOnText ran in the callback of r and gave result
Analysis(r, result) == [req |-> r, result |-> result]

\* the content arrives: _.compose(sendComments, lintContent) runs in the
\* callback.  lintContent builds the line map, then runs the analyzer; an
\* exception of either, or messages.map on undefined, is caught by nothing.
DownloadOk(r, result) ==
    /\ Running
    /\ BagIn(r, pending) /\ r.api = "getContent"
    /\ result \in AnalyzerResults(r.sha, r.path)
    /\ LET lm == getLineMapFromPatchString(r.patch)
       IN  IF lm.threw
           THEN /\ Answer(r, <<>>)
                /\ uncaught' = "getLineMapFromPatchString"
                /\ analysed' = analysed
           ELSE /\ analysed' = analysed \cup {Analysis(r, result)}
                /\ CASE result.kind = "raise" ->
                            /\ Answer(r, <<>>)
                            /\ uncaught' = "executeOnText"
                     [] result.kind = "undefined" ->
                            /\ Answer(r, <<>>)
                            /\ uncaught' = "messages.map"
                     [] OTHER ->
                            /\ Answer(r, sendComments(r.ev, r.number, r.path, lm.lineMap,
                                                      result.messages, r.sha))
                            /\ uncaught' = uncaught
    /\ UNCHANGED <<events, ended, failed, logged>>
    /\ UNCHANGED <<mapVars, filterVars>>

\* DownloadErr with the callback called all the same: atob(data.content)
\* on the undefined data is a TypeError
DownloadErrBadCallsBack(r) ==
    /\ Running
    /\ BagIn(r, pending) /\ r.api = "getContent"
    /\ Answer(r, <<>>)
    /\ failed' = failed (+) SetToBag({r})
    /\ logged' = logged \cup {r}
    /\ uncaught' = "data.content"
    /\ UNCHANGED <<events, ended, analysed>>
    /\ UNCHANGED <<mapVars, filterVars>>

\* DownloadErr with the file linted all the same
DownloadErrBadLints(r) ==
    /\ Running
    /\ BagIn(r, pending) /\ r.api = "getContent"
    /\ Answer(r, <<>>)
    /\ failed' = failed (+) SetToBag({r})
    /\ logged' = logged \cup {r}
    /\ analysed' = analysed \cup {Analysis(r, Messages(<<>>))}
    /\ UNCHANGED <<events, ended, uncaught>>
    /\ UNCHANGED <<mapVars, filterVars>>

\* DownloadErr with the request made again
DownloadErrBadRetries(r) ==
    /\ Running
    /\ BagIn(r, pending) /\ r.api = "getContent"
    /\ Answer(r, <<r>>)
    /\ failed' = failed (+) SetToBag({r})
    /\ logged' = logged \cup {r}
    /\ BagCardinality(failed) < 2
    /\ UNCHANGED <<events, ended, analysed, uncaught>>
    /\ UNCHANGED <<mapVars, filterVars>>

\* getContent fails: the error is logged and the callback is not called
DownloadErr(r) ==
    /\ Running
    /\ BagIn(r, pending) /\ r.api = "getContent"
    /\ Answer(r, <<>>)
    /\ failed' = failed (+) SetToBag({r})
    /\ logged' = logged \cup {r}
    /\ UNCHANGED <<events, ended, analysed, uncaught>>
    /\ UNCHANGED <<mapVars, filterVars>>

\* createComment is called without a callback: its answer reaches no code
CommentOk(r) ==
    /\ Running
    /\ BagIn(r, pending) /\ r.api = "createComment"
    /\ Answer(r, <<>>)
    /\ UNCHANGED <<events, ended, failed, logged, analysed, uncaught>>
    /\ UNCHANGED <<mapVars, filterVars>>

CommentErr(r) ==
    /\ Running
    /\ BagIn(r, pending) /\ r.api = "createComment"
    /\ Answer(r, <<>>)
    /\ failed' = failed (+) SetToBag({r})
    /\ UNCHANGED <<events, ended, logged, analysed, uncaught>>
    /\ UNCHANGED <<mapVars, filterVars>>

(***************************************************************************)
(* Actions of SpecMap: one call of getLineMapFromPatchString, line by line *)
(***************************************************************************)
\* MapCall with the two counters kept from the call before, as variables
\* declared outside the function would be
MapCallBadKeepsCounters ==
    /\ mapPc = "call"
    /\ mapLines' = split(patchString)
    /\ mapIdx' = 1
    /\ mapAcc' = [mapAcc EXCEPT !.lineMap = EmptyMap, !.threw = FALSE]
    /\ mapPc' = "reduce"
    /\ UNCHANGED <<patchString, callNo, firstPatch, firstResult>>
    /\ UNCHANGED <<pipeVars, filterVars>>

\* patchString.split('\n'), and the two counters set to 0
MapCall ==
    /\ mapPc = "call"
    /\ mapLines' = split(patchString)
    /\ mapIdx' = 1
    /\ mapAcc' = InitAcc
    /\ mapPc' = "reduce"
    /\ UNCHANGED <<patchString, callNo, firstPatch, firstResult>>
    /\ UNCHANGED <<pipeVars, filterVars>>

\* one call of the reducer; the reduce returns after the last line
MapStep ==
    /\ mapPc = "reduce"
    /\ LET acc == reducer(mapAcc, mapLines[mapIdx])
       IN  /\ mapAcc' = acc
           /\ mapIdx' = mapIdx + 1
           /\ mapPc' = IF acc.threw THEN "threw"
                       ELSE IF mapIdx = Len(mapLines) THEN "returned"
                       ELSE "reduce"
    /\ UNCHANGED <<patchString, mapLines, callNo, firstPatch, firstResult>>
    /\ UNCHANGED <<pipeVars, filterVars>>

\* what the call that has ended gave: the map, or the TypeError
MapResult ==
    [threw |-> mapPc = "threw",
     lineMap |-> IF mapPc = "threw" THEN EmptyMap ELSE mapAcc.lineMap]

\* the patches of the second call in SpecCalls
OtherPatches == {ScenarioA, JoinLines(<<HunkC, AddB, DelOld, AddB>>), HunkBad}

\* lintContent of another file calls getLineMapFromPatchString on its patch
MapSecondCall ==
    /\ mapPc \in {"returned", "threw"}
    /\ callNo = 1
    /\ firstPatch' = patchString
    /\ firstResult' = MapResult
    /\ patchString' \in OtherPatches
    /\ callNo' = 2
    /\ mapPc' = "call"
    /\ UNCHANGED <<mapLines, mapIdx, mapAcc>>
    /\ UNCHANGED <<pipeVars, filterVars>>

\* lintContent is called again with the patch of the first call
MapThirdCall ==
    /\ mapPc \in {"returned", "threw"}
    /\ callNo = 2
    /\ patchString' = firstPatch
    /\ callNo' = 3
    /\ mapPc' = "call"
    /\ UNCHANGED <<mapLines, mapIdx, mapAcc, firstPatch, firstResult>>
    /\ UNCHANGED <<pipeVars, filterVars>>

(***************************************************************************)
(* Action of SpecFilter: one call of filterJavascriptFiles                 *)
(***************************************************************************)
\* Array.prototype.filter returns a new array and leaves its receiver as it is
FilterCall ==
    /\ filterPc = "call"
    /\ filesOut' = filterJavascriptFiles(filesIn)
    /\ filesIn' = filesIn
    /\ filterPc' = "returned"
    /\ UNCHANGED <<pipeVars, mapVars>>

(***************************************************************************)
(* Specifications                                                          *)
(***************************************************************************)
PipeIdle ==
    /\ events = <<>>
    /\ ended = <<>>
    /\ pending = EmptyBag
    /\ calls = EmptyBag
    /\ failed = EmptyBag
    /\ logged = {}
    /\ analysed = {}
    /\ uncaught = "none"

NoMapResult == [threw |-> FALSE, lineMap |-> EmptyMap]

MapIdle ==
    /\ patchString = <<>>
    /\ mapLines = <<>>
    /\ mapIdx = 0
    /\ mapAcc = InitAcc
    /\ mapPc = "idle"
    /\ callNo = 0
    /\ firstPatch = <<>>
    /\ firstResult = NoMapResult

FilterIdle ==
    /\ filesIn = <<>>
    /\ filesOut = <<>>
    /\ filterPc = "idle"

\* the server after app.listen
Init == PipeIdle /\ MapIdle /\ FilterIdle

Requests == DOMAIN pending

Next ==
    \/ \E payload \in Payloads : Post(payload)
    \/ \E r \in Requests : GetCommitsOk(r)
    \/ \E r \in Requests : GetCommitsErr(r)
    \/ \E r \in Requests : GetCommitOk(r)
    \/ \E r \in Requests : \E data \in {"undefined", "nofiles"} : GetCommitErr(r, data)
    \/ \E r \in Requests : \E result \in AnalyzerResults(r.sha, r.path) : DownloadOk(r, result)
    \/ \E r \in Requests : DownloadErr(r)
    \/ \E r \in Requests : CommentOk(r)
    \/ \E r \in Requests : CommentErr(r)

Spec == Init /\ [][Next]_vars

\* the patches getLineMapFromPatchString is called with in SpecMap
PatchLineSeqs == UNION {[1..n -> PatchLines] : n \in 1..MaxPatchLines}

\* a first call of getLineMapFromPatchString on one of patches
MapCalled(patches) ==
    /\ patchString \in patches
    /\ mapLines = <<>>
    /\ mapIdx = 0
    /\ mapAcc = InitAcc
    /\ mapPc = "call"
    /\ callNo = 1
    /\ firstPatch = <<>>
    /\ firstResult = NoMapResult

InitMap ==
    /\ PipeIdle
    /\ FilterIdle
    /\ MapCalled({JoinLines(ls) : ls \in PatchLineSeqs})

NextMap == MapCall \/ MapStep

SpecMap == InitMap /\ [][NextMap]_vars

\* the patches of the first call in SpecCalls
CallLineSeqs == UNION {[1..n -> PatchLines] : n \in 1..MaxCallLines}

InitCalls ==
    /\ PipeIdle
    /\ FilterIdle
    /\ MapCalled({JoinLines(ls) : ls \in CallLineSeqs})

NextCalls == MapCall \/ MapStep \/ MapSecondCall \/ MapThirdCall

\* three calls of getLineMapFromPatchString in a row: on a patch, on another
\* patch, and on the first patch again
SpecCalls == InitCalls /\ [][NextCalls]_vars

\* the files entries filterJavascriptFiles is called with in SpecFilter
FileEntries ==
    {File(AJs, PatchOf(ScenarioA)), File(BJs, NoPatch), File(ReadmeMd, PatchOf(ScenarioB)),
     File(<<"j", "s">>, NoPatch), File(<<"a", ".", "j", "s", "x">>, NoPatch)}

FileSeqs == UNION {[1..n -> FileEntries] : n \in 0..MaxFiles}

InitFilter ==
    /\ PipeIdle
    /\ MapIdle
    /\ filesIn \in FileSeqs
    /\ filesOut = <<>>
    /\ filterPc = "call"

NextFilter == FilterCall

SpecFilter == InitFilter /\ [][NextFilter]_vars

(***************************************************************************)
(* Properties of getLineMapFromPatchString (checked under SpecMap)         *)
(***************************************************************************)
\* the index after the digits of line that start at i
RECURSIVE SkipDigits(_, _)
SkipDigits(line, i) ==
    IF i <= Len(line) /\ line[i] \in Digits THEN SkipDigits(line, i + 1) ELSE i

\* the index after "<digits>" or "<digits>,<digits>" at i, or 0 when there is none
SkipRange(line, i) ==
    LET j == SkipDigits(line, i)
    IN  IF j = i THEN 0
        ELSE IF j < Len(line) /\ line[j] = "," /\ SkipDigits(line, j + 1) > j + 1
        THEN SkipDigits(line, j + 1)
        ELSE j

HasAt(line, i, cs) == i + Len(cs) - 1 <= Len(line) /\ SubSeq(line, i, i + Len(cs) - 1) = cs

\* where <newStart> begins in "@@ -<oldStart>,<oldCount> +<newStart>,<newCount> @@",
\* or 0 when line is not of that format
NewStartAt(line) ==
    IF ~HasAt(line, 1, <<"@", "@", " ", "-">>) THEN 0
    ELSE LET j == SkipRange(line, 5)
         IN  IF j = 0 \/ ~HasAt(line, j, <<" ", "+">>) THEN 0
             ELSE LET k == SkipRange(line, j + 2)
                  IN  IF k = 0 \/ ~HasAt(line, k, <<" ", "@", "@">>) THEN 0 ELSE j + 2

WellFormedHeader(line) == NewStartAt(line) # 0
NewStart(line) == DigitRun(line, NewStartAt(line), 0)

IsAddition(line) == Len(line) > 0 /\ line[1] = "+"
IsDeletion(line) == Len(line) > 0 /\ line[1] = "-"
IsContext(line) == Len(line) > 0 /\ line[1] = " "

Max(S) == CHOOSE x \in S : \A y \in S : x >= y

\* the hunk header line i of ls belongs to (0: none before it)
HunkOf(ls, i) == Max({0} \cup {h \in 1..i : IsHunkHeader(ls[h])})

\* the line of the new file that line i of the patch is: newStart - 1 plus
\* the lines of its hunk, up to it, that are not deletions
FileLineOf(ls, i) ==
    LET h == HunkOf(ls, i)
        base == IF h # 0 /\ WellFormedHeader(ls[h]) THEN NewStart(ls[h]) - 1 ELSE 0
    IN  base + Cardinality({j \in (h + 1)..i : ~IsDeletion(ls[j])})

\* the position of line i in the diff: the lines up to it that are no hunk header
PositionOf(ls, i) == Cardinality({j \in 1..i : ~IsHunkHeader(ls[j])})

Additions(ls) == {i \in 1..Len(ls) : IsAddition(ls[i])}

\* a unified diff of one file: it starts with a hunk header, every line is a
\* hunk header or starts with "+", "-" or " ", the patch may end with a
\* newline, and the hunks come in the order of the new file's lines
WellFormedPatch(ls) ==
    /\ WellFormedHeader(ls[1])
    /\ \A i \in 1..Len(ls) :
          \/ WellFormedHeader(ls[i])
          \/ IsAddition(ls[i]) \/ IsDeletion(ls[i]) \/ IsContext(ls[i])
          \/ (i = Len(ls) /\ ls[i] = EmptyLine)
    /\ \A i, j \in Additions(ls) : i < j => FileLineOf(ls, i) < FileLineOf(ls, j)

\* the map with one entry per addition line
ExpectedLineMap(ls) ==
    [k \in {FileLineOf(ls, i) : i \in Additions(ls)} |->
        PositionOf(ls, CHOOSE i \in Additions(ls) : FileLineOf(ls, i) = k)]

\* C1: for every well-formed patch getLineMapFromPatchString returns, without
\* throwing, the map with one entry per addition line: its line in the new
\* file (newStart - 1 + the non-deletion lines of its hunk up to it) mapped
\* to its position (the non-header lines of the whole patch up to it); the
\* two scenarios of the specification give {2: 2} and {1: 2}.
C1_LineMapOfWellFormedPatch ==
    /\ (mapPc \in {"returned", "threw"} /\ WellFormedPatch(split(patchString)))
          => /\ mapPc = "returned"
             /\ mapAcc.lineMap = ExpectedLineMap(split(patchString))
             /\ getLineMapFromPatchString(PatchOf(patchString)) =
                   [threw |-> FALSE, lineMap |-> ExpectedLineMap(split(patchString))]
    /\ getLineMapFromPatchString(PatchOf(ScenarioA)) = [threw |-> FALSE, lineMap |-> (2 :> 2)]
    /\ getLineMapFromPatchString(PatchOf(ScenarioB)) = [threw |-> FALSE, lineMap |-> (1 :> 2)]

\* a well-formed patch of two hunks, with a deletion in the first and an
\* addition in the second, has been mapped
C1_Witness ==
    /\ mapPc = "returned"
    /\ WellFormedPatch(mapLines)
    /\ Cardinality({i \in 1..Len(mapLines) : IsHunkHeader(mapLines[i])}) = 2
    /\ \E i \in 1..Len(mapLines) : IsDeletion(mapLines[i])
    /\ \E i \in Additions(mapLines) : HunkOf(mapLines, i) > 1 /\ PositionOf(mapLines, i) = 2
    /\ mapAcc.lineMap # EmptyMap

\* C7 as a state predicate: every key of the returned map is the file line
\* of an addition line, and a patch without "+" and "-" lines gives no key
KeysAreAdditions ==
    mapPc = "returned" =>
        /\ \A k \in DOMAIN mapAcc.lineMap :
              \E i \in Additions(mapLines) :
                  /\ FileLineOf(mapLines, i) = k
                  /\ PositionOf(mapLines, i) = mapAcc.lineMap[k]
        /\ (\A i \in 1..Len(mapLines) : ~IsAddition(mapLines[i]) /\ ~IsDeletion(mapLines[i]))
              => mapAcc.lineMap = EmptyMap

\* C7 as a step: a line that is no addition leaves the map as it is
OnlyAdditionsRecord ==
    (mapPc = "reduce" /\ ~IsAddition(mapLines[mapIdx])) => mapAcc'.lineMap = mapAcc.lineMap

\* C7: for all patches, every key of the map getLineMapFromPatchString
\* returns is the file line of an addition line of the patch; deletion
\* lines, context lines, hunk headers and the empty last line never create
\* a key, and a patch of context lines only gives the empty map.
C7_OnlyAdditionsAreKeys == []KeysAreAdditions /\ [][OnlyAdditionsRecord]_vars

\* a patch with a hunk header, a context line, an addition and the empty
\* line after the last newline has been mapped: the addition is its one key
C7_Witness ==
    /\ mapPc = "returned"
    /\ IsHunkHeader(mapLines[1])
    /\ \E i \in 1..Len(mapLines) : IsContext(mapLines[i])
    /\ mapLines[Len(mapLines)] = EmptyLine
    /\ Cardinality(Additions(mapLines)) = 1
    /\ Cardinality(DOMAIN mapAcc.lineMap) = 1

(***************************************************************************)
(* Properties of the pipeline (checked under Spec)                         *)
(***************************************************************************)
\* how many requests, of those issued so far, are in S
CountCalls(S) ==
    LET T == S \cap DOMAIN calls
    IN  IF T = {} THEN 0 ELSE BagCardinality([c \in T |-> calls[c]])

SameUnit(c, r) == c.ev = r.ev /\ c.sha = r.sha /\ c.path = r.path

\* the createComment requests issued for the file of getContent request r
CommentsFor(r) == CountCalls({c \in DOMAIN calls : c.api = "createComment" /\ SameUnit(c, r)})

CommentsAt(r, p) ==
    CountCalls({c \in DOMAIN calls : c.api = "createComment" /\ SameUnit(c, r) /\ c.position = p})

\* the LineMap built from the patch of the file of r
LineMapFor(r) == getLineMapFromPatchString(r.patch).lineMap

\* the findings of messages whose line is a key of lineMap
MappedFindings(lineMap, messages) ==
    {i \in 1..Len(messages) : messages[i].line \in DOMAIN lineMap}

\* C4: for every finding the analyzer returned for a file, exactly one
\* comment is submitted when its line is a key of the LineMap of the file's
\* patch (at the position the map gives), and none otherwise.
C4_OneCommentPerMappedFinding ==
    \A a \in analysed :
        a.result.kind = "messages" =>
            LET lm == LineMapFor(a.req)
                ms == a.result.messages
                mapped == MappedFindings(lm, ms)
            IN  /\ CommentsFor(a.req) = Cardinality(mapped)
                /\ \A i \in mapped :
                      CommentsAt(a.req, lm[ms[i].line]) =
                          Cardinality({j \in mapped : lm[ms[j].line] = lm[ms[i].line]})

\* the analyzer returned findings on mapped lines and a finding on a line
\* that is not mapped, and the comments of the mapped ones were submitted
C4_Witness ==
    \E a \in analysed :
        /\ a.result.kind = "messages"
        /\ LET mapped == MappedFindings(LineMapFor(a.req), a.result.messages)
           IN  /\ Cardinality(mapped) = 2
               /\ Cardinality(mapped) < Len(a.result.messages)
        /\ CommentsFor(a.req) = 2

IsPullRequestEvent(payload) == payload.body /\ payload.pull_request

\* C5: a delivery whose body has no pull_request key, or that has no body,
\* makes no request to GitHub of any kind, logs no error, and its response
\* is ended.
C5_OtherEventsIgnored ==
    \A e \in 1..Len(events) :
        ~IsPullRequestEvent(events[e]) =>
            /\ CountCalls({c \in DOMAIN calls : c.ev = e}) = 0
            /\ \A r \in logged : r.ev # e
            /\ ended[e] = 1

\* a delivery whose body has no pull_request key was acknowledged
C5_Witness ==
    \E e \in 1..Len(events) :
        /\ events[e] = OtherEvent
        /\ ended[e] = 1
        /\ uncaught = "none"

\* the getContent requests answered with the content
Downloaded(r) ==
    /\ r.api = "getContent"
    /\ BagIn(r, calls) /\ ~BagIn(r, pending) /\ ~BagIn(r, failed)

\* C8 as a state predicate: a failed download is logged, the analyzer is
\* not run on the file and no comment is submitted for it
FailedDownloadSkipsFile ==
    \A r \in DOMAIN failed :
        r.api = "getContent" =>
            /\ r \in logged
            /\ \A a \in analysed : a.req # r
            /\ CommentsFor(r) = 0

\* C8 as a step: the failure of a download changes nothing but that request:
\* no exception, and every other request in flight stays in flight
FailedDownloadLeavesOthers ==
    \A r \in DOMAIN pending :
        (r.api = "getContent" /\ CopiesIn(r, failed') > CopiesIn(r, failed)) =>
            /\ uncaught' = uncaught
            /\ pending' = pending (-) SetToBag({r})
            /\ calls' = calls
            /\ analysed' = analysed

\* C8: when the download of one selected file fails, the error is logged and
\* that file alone is skipped (no analysis, no comment); the other files'
\* requests are untouched by it, and a file whose content arrives is
\* analysed and its mapped findings submitted.
C8_DownloadFailureIsolated ==
    /\ []FailedDownloadSkipsFile
    /\ [][FailedDownloadLeavesOthers]_vars
    /\ [](\A r \in DOMAIN calls :
            (Downloaded(r) /\ uncaught = "none") =>
                \E a \in analysed :
                    /\ a.req = r
                    /\ CommentsFor(r) =
                          Cardinality(MappedFindings(LineMapFor(r), a.result.messages)))

\* the download of b.js failed and a.js, of the same commit, was analysed
\* after that and its comments submitted
C8_Witness ==
    /\ uncaught = "none"
    /\ \E r \in DOMAIN failed :
          /\ r.api = "getContent" /\ r.path = BJs
          /\ \E a \in analysed :
                /\ a.req.ev = r.ev /\ a.req.sha = r.sha /\ a.req.path = AJs
                /\ CommentsFor(a.req) = 2

(***************************************************************************)
(* Statements of the specification that the code does not meet             *)
(***************************************************************************)
\* C2: when getCommit fails for one commit, the failure is logged, only that
\* commit is skipped and no exception escapes.
C2_FileListingFailureIsolated ==
    \A r \in DOMAIN failed :
        r.api = "getCommit" =>
            /\ r \in logged
            /\ uncaught = "none"

\* C3: when getCommits fails, the error is logged, no other request is made
\* for the delivery, the request is not repeated and no exception is raised.
C3_CommitListingFailureAborts ==
    \A r \in DOMAIN failed :
        r.api = "getCommits" =>
            /\ r \in logged
            /\ CountCalls({c \in DOMAIN calls : c.ev = r.ev}) = 1
            /\ uncaught = "none"

\* C6: for a file whose patch is the empty string or absent, building the
\* LineMap raises nothing and gives the empty map: no comment for the file,
\* and the exception of no line mapper ends the pipeline.
C6_EmptyOrAbsentPatchGivesEmptyMap ==
    \A r \in DOMAIN calls :
        (Downloaded(r) /\ (~r.patch.present \/ r.patch.str = <<>>)) =>
            /\ getLineMapFromPatchString(r.patch) = [threw |-> FALSE, lineMap |-> EmptyMap]
            /\ CommentsFor(r) = 0
            /\ uncaught # "getLineMapFromPatchString"

\* C9: when the analyzer raises on the content of one file, the failure is
\* logged and stays with that file: no exception escapes the callback.
C9_AnalyzerFailureIsolated ==
    \A a \in analysed :
        a.result.kind = "raise" =>
            /\ a.req \in logged
            /\ CommentsFor(a.req) = 0
            /\ uncaught = "none"

\* C10: no failure ends the process: whatever failed during a delivery, no
\* exception goes uncaught and the next delivery is still accepted.
C10_NoErrorIsFatal ==
    /\ uncaught = "none"
    /\ Len(events) < MaxEvents => ENABLED (\E payload \in Payloads : Post(payload))

\* C11: when the analyzer reports no findings for a downloaded file, also
\* when its result holds no list of messages for the file, no comment is
\* submitted for the file and no error is raised.
C11_NoFindingsNoError ==
    \A a \in analysed :
        (a.result.kind = "undefined" \/ (a.result.kind = "messages" /\ a.result.messages = <<>>))
            => /\ CommentsFor(a.req) = 0
               /\ uncaught = "none"

\* C13: a createComment that fails is logged for that comment (and the other
\* comments are still submitted).
C13_CommentFailureLogged ==
    \A r \in DOMAIN failed :
        r.api = "createComment" =>
            /\ r \in logged
            /\ uncaught = "none"

\* no callback of a request can run
NoCallbackCanRun ==
    ~ENABLED (\E r \in Requests :
                \/ GetCommitsOk(r) \/ GetCommitsErr(r)
                \/ GetCommitOk(r) \/ GetCommitErr(r, "undefined")
                \/ DownloadErr(r)
                \/ \E result \in AnalyzerResults(r.sha, r.path) : DownloadOk(r, result)
                \/ CommentOk(r) \/ CommentErr(r))

\* the file of getContent request r is done with: skipped after a logged
\* failure, or analysed and its mapped findings submitted
UnitTerminal(r) ==
    \/ BagIn(r, failed) /\ r \in logged
    \/ \E a \in analysed :
          /\ a.req = r /\ a.result.kind = "messages"
          /\ CommentsFor(r) = Cardinality(MappedFindings(LineMapFor(r), a.result.messages))

\* C15: the handling of a delivery runs to completion: once no callback is
\* left to run, no request is in flight and every file a getContent was
\* issued for is skipped after a logged failure or has its comments submitted.
C15_RunsToCompletion ==
    NoCallbackCanRun =>
        /\ pending = EmptyBag
        /\ \A r \in DOMAIN calls : r.api = "getContent" => UnitTerminal(r)

\* the label the specification gives a finding: its rule id, "Eslint" when
\* the rule id is missing or null
RuleLabel(finding) ==
    IF finding.ruleId \in {"undefined", "null"} THEN "Eslint" ELSE finding.ruleId

\* C20: the body of every submitted comment is "**<ruleId>**: <message>",
\* with "Eslint" for <ruleId> when the finding's rule id is missing or null.
C20_BodyNamesRuleOrEslint ==
    \A c \in DOMAIN calls :
        c.api = "createComment" =>
            \E a \in analysed :
                /\ SameUnit(c, a.req)
                /\ \E i \in 1..Len(a.result.messages) :
                      c.body = <<"**", RuleLabel(a.result.messages[i]), "**: ",
                                 a.result.messages[i].message>>

(***************************************************************************)
(* Further properties of the pipeline (checked under Spec)                 *)
(***************************************************************************)
\* C12 as a state predicate: the response of every delivery was ended once
EndedOnce ==
    /\ Len(ended) = Len(events)
    /\ \A e \in 1..Len(events) : ended[e] = 1

\* C12 as a step: the step that receives a delivery ends its response, with
\* every request made for it still in flight; no other step touches a response
EndedAtOnce ==
    IF Len(events') > Len(events)
    THEN LET e == Len(events')
         IN  /\ Len(ended') = e /\ ended'[e] = 1
             /\ \A c \in DOMAIN calls' : c.ev = e => CopiesIn(c, pending') = CopiesIn(c, calls')
    ELSE ended' = ended

\* C12: for every delivery, a pull request event or not, the response is
\* ended in the handler itself, before any callback of a GitHub request of
\* the delivery has run, and exactly once.
C12_ResponseEndedAtOnce == []EndedOnce /\ [][EndedAtOnce]_vars

\* the response of a pull request event is ended while its getCommits
\* request is in flight
C12_Witness ==
    \E e \in 1..Len(events) :
        /\ IsPullRequestEvent(events[e])
        /\ ended[e] = 1
        /\ BagIn(GetCommitsRequest(e, events[e].number), pending)

\* the request was answered without an error
AnsweredOk(r) == BagIn(r, calls) /\ ~BagIn(r, pending) /\ ~BagIn(r, failed)

\* C14: in every interleaving the steps of a file are in causal order:
\* getContent is requested after the files of its commit arrived, the
\* analyzer runs only on content that was downloaded, and a comment is
\* submitted only for a finding of an analysis of that file, at the position
\* looked up for the finding's line.
C14_CausalOrder ==
    /\ \A r \in DOMAIN calls :
          r.api = "getContent" =>
              AnsweredOk(GetCommitRequest(r.ev, r.number, r.sha))
    /\ \A a \in analysed : Downloaded(a.req)
    /\ \A c \in DOMAIN calls :
          c.api = "createComment" =>
              \E a \in analysed :
                  /\ SameUnit(c, a.req)
                  /\ Downloaded(a.req)
                  /\ a.result.kind = "messages"
                  /\ LET lm == LineMapFor(a.req)
                     IN  \E i \in 1..Len(a.result.messages) :
                            Lookup(lm, a.result.messages[i].line) =
                                [defined |-> TRUE, value |-> c.position]

\* comments of one file were submitted while the download of another file
\* is in flight
C14_Witness ==
    /\ \E c \in DOMAIN calls : c.api = "createComment"
    /\ \E r \in DOMAIN pending : r.api = "getContent"

\* C18: no request is made twice within a delivery, whatever fails: one
\* getCommits for a pull request event, at most one getCommit per commit,
\* at most one getContent per commit and file and none for a file the
\* pattern rejects, at most one createComment per finding.
C18_NoRequestTwice ==
    /\ \A e \in 1..Len(events) :
          IsPullRequestEvent(events[e]) =>
              CountCalls({c \in DOMAIN calls : c.ev = e /\ c.api = "getCommits"}) = 1
    /\ \A c \in DOMAIN calls :
          /\ c.api \in {"getCommits", "getCommit", "getContent"} => CopiesIn(c, calls) = 1
          /\ c.api = "getContent" => FILE_FILTER(c.path)
          /\ c.api = "createComment" =>
                \E a \in analysed :
                    /\ SameUnit(c, a.req)
                    /\ LET lm == LineMapFor(a.req)
                           ms == a.result.messages
                       IN  CopiesIn(c, calls) <=
                              Cardinality({i \in 1..Len(ms) :
                                  /\ ms[i].line \in DOMAIN lm
                                  /\ lm[ms[i].line] = c.position
                                  /\ CommentBody(ms[i]) = c.body})

\* a download failed, and each request of the delivery was made once
C18_Witness ==
    /\ \E r \in DOMAIN failed : r.api = "getContent"
    /\ CountCalls({c \in DOMAIN calls : c.api = "getCommit"}) = 2
    /\ CountCalls({c \in DOMAIN calls : c.api = "getContent"}) = 3
    /\ CountCalls({c \in DOMAIN calls : c.api = "createComment"}) = 2

\* the files entry of filename in the commit sha, if the pattern keeps it
SelectedFiles(sha, filename) ==
    {i \in 1..Len(FilesOf(sha)) :
        FilesOf(sha)[i].filename = filename /\ FILE_FILTER(filename)}

\* C19: in every interleaving a submitted comment holds the pull request
\* number of its delivery, the sha of a commit of that pull request, the
\* name of a selected file of that commit, and the position that the
\* LineMap of that file's patch in that commit gives the line of a finding
\* of the analysis of that file.
C19_CommentIsOfOneUnit ==
    \A c \in DOMAIN calls :
        c.api = "createComment" =>
            /\ c.number = events[c.ev].number
            /\ \E k \in 1..Len(CommitsOf(c.number)) : CommitsOf(c.number)[k].sha = c.sha
            /\ \E i \in SelectedFiles(c.sha, c.path) :
                  LET file == FilesOf(c.sha)[i]
                      lm == getLineMapFromPatchString(file.patch).lineMap
                  IN  \E a \in analysed :
                         /\ SameUnit(c, a.req)
                         /\ a.req.patch = file.patch
                         /\ \E j \in 1..Len(a.result.messages) :
                               /\ a.result.messages[j].line \in DOMAIN lm
                               /\ lm[a.result.messages[j].line] = c.position

\* comments of two files of one delivery were submitted
C19_Witness ==
    \E c, d \in DOMAIN calls :
        /\ c.api = "createComment" /\ d.api = "createComment"
        /\ c.ev = d.ev /\ c.path = AJs /\ d.path = BJs

(***************************************************************************)
(* Properties of filterJavascriptFiles (checked under SpecFilter)          *)
(***************************************************************************)
\* the places of filesIn whose filename the pattern matches
Matching == {i \in 1..Len(filesIn) : FILE_FILTER(filesIn[i].filename)}

\* the k-th place of M, in increasing order
Kth(M, k) == CHOOSE m \in M : Cardinality({j \in M : j <= m}) = k

\* C16 as a state predicate: the result holds the matching entries, each
\* once, in the order of the input
KeepsMatchingInOrder ==
    filterPc = "returned" =>
        /\ Len(filesOut) = Cardinality(Matching)
        /\ \A k \in 1..Len(filesOut) : filesOut[k] = filesIn[Kth(Matching, k)]

\* C16: filterJavascriptFiles returns exactly the entries of its input whose
\* filename matches the pattern, in their order, none twice, and leaves its
\* input as it was.
C16_FilterKeepsMatchingInOrder ==
    []KeepsMatchingInOrder /\ [][filterPc = "call" => filesIn' = filesIn]_vars

\* a list of two matching files around one the pattern rejects was filtered
C16_Witness ==
    /\ filterPc = "returned"
    /\ Len(filesIn) = 3
    /\ ~FILE_FILTER(filesIn[2].filename)
    /\ Len(filesOut) = 2
    /\ filesOut[1] # filesOut[2]

(***************************************************************************)
(* Properties of successive calls of the line mapper (under SpecCalls)     *)
(***************************************************************************)
\* C17: what getLineMapFromPatchString returns depends on its argument
\* alone: a call made after calls on other patches gives what it gives with
\* the counters at 0, and a patch mapped a second time, after a call on
\* another patch, gives the map it gave the first time.
C17_MapDependsOnPatchOnly ==
    mapPc \in {"returned", "threw"} =>
        /\ MapResult = [threw |-> reduce(InitAcc, mapLines).threw,
                        lineMap |-> IF reduce(InitAcc, mapLines).threw THEN EmptyMap
                                    ELSE reduce(InitAcc, mapLines).lineMap]
        /\ callNo = 3 => MapResult = firstResult

\* a patch with additions was mapped, then another patch, then the first
\* patch again
C17_Witness ==
    /\ callNo = 3
    /\ mapPc = "returned"
    /\ patchString = firstPatch
    /\ Cardinality(DOMAIN mapAcc.lineMap) >= 2

====
